---- MODULE Spec2Model ----
(***************************************************************************)
(* Gait-Video-Authentication: the frame sampler, the silhouette / GEI      *)
(* pipeline over the shared working folders, and the enrollment matcher.   *)
(*                                                                         *)
(*   SpecSampler   extract_frames on one video source                      *)
(*   SpecMatch     the gallery traversal and decision of is_person_enrolled*)
(*   SpecPipeline  concurrent / repeated calls of is_person_enrolled over   *)
(*                 temp_frames and temp_silhouettes                        *)
(*                                                                         *)
(* Real-valued quantities are integers in fixed units: an SSIM score or a  *)
(* threshold x in [-1, 1] is the integer x * Scale; a frame rate f is the   *)
(* integer f * FpsUnit.  Library calls whose code is not part of the       *)
(* repository (cv2.VideoCapture, MOG2, ssim, os.listdir) are inputs: the   *)
(* value they return is drawn from the set of values they can return.      *)
(***************************************************************************)
EXTENDS Integers, Sequences, FiniteSets, TLC

VARIABLES
    \* ---- SpecSampler: one call of extract_frames
    sVideo,          \* the source: [opens, n, fps]  (fps in units of 1/FpsUnit)
    sRate,           \* frame_rate argument
    sPc,             \* "call" | "returned"
    sOut,            \* source indices written, in order: sOut[c+1] is frame_{c}.jpg
    \* ---- SpecMatch: lines 253-283 of is_person_enrolled, the probe GEI built
    mPc,             \* "persons" | "views" | "templates" | "done"
    mT,              \* match_threshold of run 1 and run 2 (same probe, same gallery)
    mR,              \* reject_threshold
    mMax,            \* max_similarity of each run
    mRes,            \* returned verdict of each run
    fMax,            \* max_similarity of each run over the gallery without the skipped entries
    fRes,            \* verdict of each run over the gallery without the skipped entries
    nEntries,        \* gallery entries listed so far
    nValid,          \* readable templates compared so far
    nSkipped,        \* entries skipped so far (non-folders, unreadable templates)
    skipAfterValid,  \* an entry was skipped after a template was compared
    trueMax,         \* maximum SSIM score over the readable templates so far
    \* ---- SpecPipeline: the working directory and the requests
    temp_frames,     \* folder "temp_frames": file name -> frame written
    temp_silhouettes,\* folder "temp_silhouettes": file name -> mask written
    frames_dir,      \* temp_frames exists
    sils_dir,        \* temp_silhouettes exists
    pc,              \* per request: position in is_person_enrolled
    video,           \* per request: uploaded_video
    uploaded_gei,    \* per request: the probe GEI, None, or not yet built
    result,          \* per request: the value returned
    applied,         \* per request: file names in the order fed to the background model
    compared,        \* per request: the gallery was traversed
    ncalls           \* per request slot: calls started

samplerVars == <<sVideo, sRate, sPc, sOut>>
matchVars == <<mPc, mT, mR, mMax, mRes, fMax, fRes, nEntries, nValid, nSkipped,
               skipAfterValid, trueMax>>
pipeVars == <<temp_frames, temp_silhouettes, frames_dir, sils_dir, pc, video,
              uploaded_gei, result, applied, compared, ncalls>>
vars == <<samplerVars, matchVars, pipeVars>>

----------------------------------------------------------------------------
(* Units and bounds *)

Scale == 4            \* scores and thresholds in units of 1/Scale
FpsUnit == 2          \* frame rates in units of 1/FpsUnit
MaxSrcFrames == 6     \* frames of a sampled source
MaxFps == 4           \* largest source frame rate (whole frames per second)
MaxRate == 3          \* largest frame_rate argument
MaxEntries == 5       \* gallery entries listed in one traversal
MaxCalls == 2         \* calls of is_person_enrolled per request slot

Scores == (-Scale)..Scale
NoScore == -Scale - 1   \* "no readable template yet" for trueMax

Max(a, b) == IF a >= b THEN a ELSE b

----------------------------------------------------------------------------
(* gait_preprocessing.extract_frames *)

\* cap.read(): (ret, position after the read) on a source of n frames
CapRead(n, pos) == [ret |-> pos < n, pos |-> IF pos < n THEN pos + 1 ELSE pos]

\* int(cap.get(cv2.CAP_PROP_FPS)): truncation of the source rate
IntFps(fps) == fps \div FpsUnit

\* variant: the skip count without the - 1
skip_frames_no_minus_one(fps, frame_rate) == IntFps(fps) \div frame_rate

\* skip_frames = int(cap.get(cv2.CAP_PROP_FPS)) // frame_rate - 1
skip_frames(fps, frame_rate) == IntFps(fps) \div frame_rate - 1

\* for _ in range(skip_frames): cap.read()
RECURSIVE SkipReads(_, _, _)
SkipReads(n, pos, k) ==
    IF k <= 0 THEN pos ELSE SkipReads(n, CapRead(n, pos).pos, k - 1)

\* the while True loop: emitted[c+1] is the source index saved as frame_{c}.jpg
RECURSIVE ReadLoop(_, _, _, _)
ReadLoop(src, frame_rate, pos, emitted) ==
    LET r == CapRead(src.n, pos) IN
    IF ~r.ret THEN emitted
    ELSE ReadLoop(src, frame_rate,
                  SkipReads(src.n, r.pos, skip_frames(src.fps, frame_rate)),
                  Append(emitted, pos))

\* extract_frames(video_path, output_folder, frame_rate): the frames written
extract_frames(src, frame_rate) ==
    IF ~src.opens THEN <<>> ELSE ReadLoop(src, frame_rate, 0, <<>>)

Sources == [opens : BOOLEAN, n : 0..MaxSrcFrames, fps : 0..(MaxFps * FpsUnit)]

SamplerInit ==
    /\ sVideo \in Sources
    /\ sRate \in 1..MaxRate
    /\ sPc = "call"
    /\ sOut = <<>>

SamplerCall ==
    /\ sPc = "call"
    /\ sOut' = extract_frames(sVideo, sRate)
    /\ sPc' = "returned"
    /\ UNCHANGED <<sVideo, sRate, matchVars, pipeVars>>

----------------------------------------------------------------------------
(* app.compare_geis and the decision of app.is_person_enrolled *)

\* a Python bool used as a number: True is 1, False is 0
PyBool(b) == IF b THEN Scale ELSE 0

\* variant: a strict comparison against the threshold
compare_geis_strict(similarity, threshold) == similarity > threshold

\* compare_geis: ssim(...) gave `similarity`; return similarity >= threshold
compare_geis(similarity, threshold) == similarity >= threshold

\* max_similarity = -1
InitialMaxSimilarity == -Scale

\* similarity = compare_geis(uploaded_gei, enrolled_gei, match_threshold)
\* if similarity > max_similarity: max_similarity = similarity
UpdateMax(max_similarity, score, match_threshold) ==
    LET similarity == PyBool(compare_geis(score, match_threshold)) IN
    IF similarity > max_similarity THEN similarity ELSE max_similarity

\* variant: a skipped entry resets the running maximum
SkipEntryResetsMax(max_similarity) == InitialMaxSimilarity

\* `continue` on a non-folder entry or a template that fails to load
SkipEntry(max_similarity) == max_similarity

\* variant: the accept comparison the wrong way round
DecideInverted(max_similarity, match_threshold, reject_threshold) ==
    max_similarity <= match_threshold

\* Step 3: decide based on similarity
Decide(max_similarity, match_threshold, reject_threshold) ==
    IF max_similarity >= match_threshold THEN TRUE
    ELSE IF max_similarity < reject_threshold THEN FALSE
    ELSE FALSE

----------------------------------------------------------------------------
(* SpecMatch: the traversal of enrolled_geis_folder, entry by entry.  Each  *)
(* os.listdir entry is an input: a folder, a non-folder, a template that   *)
(* loads (with its SSIM score against the probe) or one that does not.     *)
(* Runs 1 and 2 are two calls with the same probe and gallery and the       *)
(* thresholds mT[1] <= mT[2]; fMax / fRes are the same calls on the gallery *)
(* from which the skipped entries are removed.                             *)

Runs == {1, 2}

MatchInit ==
    /\ mPc = "persons"
    /\ mT \in {t \in [Runs -> Scores] : t[1] <= t[2]}
    /\ mR \in Scores
    /\ mMax = [r \in Runs |-> InitialMaxSimilarity]
    /\ fMax = [r \in Runs |-> InitialMaxSimilarity]
    /\ mRes = [r \in Runs |-> FALSE]
    /\ fRes = [r \in Runs |-> FALSE]
    /\ nEntries = 0
    /\ nValid = 0
    /\ nSkipped = 0
    /\ skipAfterValid = FALSE
    /\ trueMax = NoScore

\* an entry that the loops skip with `continue`
Skip ==
    /\ nEntries < MaxEntries
    /\ nEntries' = nEntries + 1
    /\ mMax' = [r \in Runs |-> SkipEntry(mMax[r])]
    /\ nSkipped' = IF nSkipped < 2 THEN nSkipped + 1 ELSE nSkipped
    /\ skipAfterValid' = (skipAfterValid \/ nValid > 0)
    /\ UNCHANGED <<mPc, mT, mR, mRes, fMax, fRes, nValid, trueMax>>
    /\ UNCHANGED <<samplerVars, pipeVars>>

\* a folder entry: the next inner loop starts
Descend(to) ==
    /\ nEntries < MaxEntries
    /\ nEntries' = nEntries + 1
    /\ mPc' = to
    /\ UNCHANGED <<mT, mR, mMax, mRes, fMax, fRes, nValid, nSkipped,
                   skipAfterValid, trueMax>>
    /\ UNCHANGED <<samplerVars, pipeVars>>

\* the end of an inner listing: the enclosing loop goes on
Ascend(to) ==
    /\ mPc' = to
    /\ UNCHANGED <<mT, mR, mMax, mRes, fMax, fRes, nEntries, nValid, nSkipped,
                   skipAfterValid, trueMax>>
    /\ UNCHANGED <<samplerVars, pipeVars>>

\* if not os.path.isdir(person_path): continue
PersonNotDir == mPc = "persons" /\ Skip

\* for view_folder in os.listdir(person_path)
PersonDir == mPc = "persons" /\ Descend("views")

\* if not os.path.isdir(view_path): continue
ViewNotDir == mPc = "views" /\ Skip

\* for gei_file in os.listdir(view_path)
ViewDir == mPc = "views" /\ Descend("templates")

ViewsEnd == mPc = "views" /\ Ascend("persons")

\* if enrolled_gei is None: print(...); continue
TemplateUnreadable == mPc = "templates" /\ Skip

\* a template that loads: compare and keep the maximum
TemplateCompare ==
    /\ mPc = "templates"
    /\ nEntries < MaxEntries
    /\ \E score \in Scores :
        /\ mMax' = [r \in Runs |-> UpdateMax(mMax[r], score, mT[r])]
        /\ fMax' = [r \in Runs |-> UpdateMax(fMax[r], score, mT[r])]
        /\ trueMax' = Max(trueMax, score)
    /\ nEntries' = nEntries + 1
    /\ nValid' = IF nValid < 2 THEN nValid + 1 ELSE nValid
    /\ UNCHANGED <<mPc, mT, mR, mRes, fRes, nSkipped, skipAfterValid>>
    /\ UNCHANGED <<samplerVars, pipeVars>>

TemplatesEnd == mPc = "templates" /\ Ascend("views")

\* the outer listing is exhausted: Step 3
PersonsEnd ==
    /\ mPc = "persons"
    /\ mPc' = "done"
    /\ mRes' = [r \in Runs |-> Decide(mMax[r], mT[r], mR)]
    /\ fRes' = [r \in Runs |-> Decide(fMax[r], mT[r], mR)]
    /\ UNCHANGED <<mT, mR, mMax, fMax, nEntries, nValid, nSkipped,
                   skipAfterValid, trueMax>>
    /\ UNCHANGED <<samplerVars, pipeVars>>

MatchNext ==
    \/ PersonNotDir \/ PersonDir \/ PersonsEnd
    \/ ViewNotDir \/ ViewDir \/ ViewsEnd
    \/ TemplateUnreadable \/ TemplateCompare \/ TemplatesEnd

----------------------------------------------------------------------------
(* SpecPipeline: is_person_enrolled called by two request slots over the   *)
(* fixed-name folders temp_frames and temp_silhouettes.                    *)
(*                                                                         *)
(* A frame file holds [v, c, i]: video v's source frame i, written as      *)
(* frame_{c}.jpg.  A mask file holds the sequence of frames the background *)
(* model had been given when it produced the mask (the mask is a function   *)
(* of exactly that history).  A GEI, the per-pixel mean of the masks, is    *)
(* the set of masks averaged.                                              *)

Procs == {1, 2}

\* frame_rate=30, the default extract_frames is called with
DefaultFrameRate == 30

VideoIds == {"walkA", "walkB", "broken", "glitch"}

\* the uploads: unreadable names the frame files that cv2.imread fails to load
Video(id) ==
    CASE id = "walkA"  -> [opens |-> TRUE, n |-> 2, fps |-> 30 * FpsUnit, unreadable |-> {}]
      [] id = "walkB"  -> [opens |-> TRUE, n |-> 3, fps |-> 60 * FpsUnit, unreadable |-> {}]
      [] id = "broken" -> [opens |-> FALSE, n |-> 0, fps |-> 0, unreadable |-> {}]
      [] id = "glitch" -> [opens |-> TRUE, n |-> 2, fps |-> 30 * FpsUnit, unreadable |-> {1}]

EmptyDir == [name \in {} |-> 0]

Range(seq) == {seq[k] : k \in 1..Len(seq)}

\* os.listdir(folder): the names in arbitrary order
ListDir(folder) ==
    LET names == DOMAIN folder IN
    {order \in [1..Cardinality(names) -> names] :
        \A a, b \in 1..Cardinality(names) : a # b => order[a] # order[b]}

\* cv2.imread(frame_path) is None
FailsToLoad(frame) == frame.c \in Video(frame.v).unreadable

\* the files extract_frames writes into output_folder
FramesWritten(v) ==
    LET emitted == extract_frames(Video(v), DefaultFrameRate) IN
    [c \in 0..(Len(emitted) - 1) |-> [v |-> v, c |-> c, i |-> emitted[c + 1]]]

\* a folder after the files `written` are saved into it
Save(folder, written) ==
    [name \in DOMAIN folder \cup DOMAIN written |->
        IF name \in DOMAIN written THEN written[name] ELSE folder[name]]

\* the loop of extract_silhouettes over `order`: the names processed before
\* fgbg.apply is given a frame that failed to load
RECURSIVE Processed(_, _, _)
Processed(folder, order, k) ==
    IF k > Len(order) \/ FailsToLoad(folder[order[k]]) THEN SubSeq(order, 1, k - 1)
    ELSE Processed(folder, order, k + 1)

\* fgmask = fgbg.apply(frame) for each processed name, saved under the same name
MasksWritten(folder, processed) ==
    [name \in Range(processed) |->
        LET k == CHOOSE j \in 1..Len(processed) : processed[j] = name IN
        [j \in 1..k |-> folder[processed[j]]]]

\* Python's None where a GEI is expected
NoneGei == [isNone |-> TRUE, masks |-> {}]

\* create_gei: np.mean over the masks that load; None when there is none
create_gei(folder) ==
    IF DOMAIN folder = {} THEN NoneGei
    ELSE [isNone |-> FALSE, masks |-> {folder[name] : name \in DOMAIN folder}]

\* the gallery of one call: the SSIM scores of its readable templates against
\* the probe, in traversal order
Galleries == {<<>>} \cup {<<a>> : a \in Scores}

\* match_threshold = st.slider("Matching Threshold", 0.5, 1.0, 0.75)
SliderThresholds == {t \in Scores : 2 * t >= Scale}

\* reject_threshold=0.5, the default main leaves in place
DefaultRejectThreshold == Scale \div 2

RECURSIVE TraverseMax(_, _, _)
TraverseMax(scores, max_similarity, match_threshold) ==
    IF scores = <<>> THEN max_similarity
    ELSE TraverseMax(Tail(scores),
                     UpdateMax(max_similarity, Head(scores), match_threshold),
                     match_threshold)

PipeInit ==
    /\ temp_frames = EmptyDir
    /\ temp_silhouettes = EmptyDir
    /\ frames_dir = FALSE
    /\ sils_dir = FALSE
    /\ pc = [p \in Procs |-> "idle"]
    /\ video = [p \in Procs |-> "broken"]
    /\ uploaded_gei = [p \in Procs |-> NoneGei]
    /\ result = [p \in Procs |-> FALSE]
    /\ applied = [p \in Procs |-> <<>>]
    /\ compared = [p \in Procs |-> FALSE]
    /\ ncalls = [p \in Procs |-> 0]

\* is_person_enrolled(uploaded_video, ...): os.makedirs(..., exist_ok=True) twice
Call(p) ==
    /\ pc[p] \in {"idle", "done", "error"}
    /\ ncalls[p] < MaxCalls
    /\ \E v \in VideoIds : video' = [video EXCEPT ![p] = v]
    /\ ncalls' = [ncalls EXCEPT ![p] = @ + 1]
    /\ frames_dir' = TRUE
    /\ sils_dir' = TRUE
    /\ pc' = [pc EXCEPT ![p] = "extract_frames"]
    /\ uploaded_gei' = [uploaded_gei EXCEPT ![p] = NoneGei]
    /\ result' = [result EXCEPT ![p] = FALSE]
    /\ applied' = [applied EXCEPT ![p] = <<>>]
    /\ compared' = [compared EXCEPT ![p] = FALSE]
    /\ UNCHANGED <<temp_frames, temp_silhouettes, samplerVars, matchVars>>

\* extract_frames(uploaded_video, temp_frames_folder)
ExtractFrames(p) ==
    /\ pc[p] = "extract_frames"
    /\ frames_dir' = TRUE
    /\ temp_frames' = Save(temp_frames, FramesWritten(video[p]))
    /\ pc' = [pc EXCEPT ![p] = "extract_silhouettes"]
    /\ UNCHANGED <<temp_silhouettes, sils_dir, video, uploaded_gei, result,
                   applied, compared, ncalls>>
    /\ UNCHANGED <<samplerVars, matchVars>>

\* extract_silhouettes(temp_frames_folder, temp_silhouettes_folder)
ExtractSilhouettes(p) ==
    /\ pc[p] = "extract_silhouettes"
    /\ sils_dir' = TRUE
    /\ \/ /\ ~frames_dir                 \* os.listdir raises FileNotFoundError
          /\ pc' = [pc EXCEPT ![p] = "error"]
          /\ UNCHANGED <<temp_silhouettes, applied>>
       \/ /\ frames_dir
          /\ \E order \in ListDir(temp_frames) :
                LET processed == Processed(temp_frames, order, 1) IN
                /\ temp_silhouettes' =
                       Save(temp_silhouettes, MasksWritten(temp_frames, processed))
                /\ applied' = [applied EXCEPT ![p] =
                                  [k \in 1..Len(processed) |-> temp_frames[processed[k]]]]
                /\ pc' = [pc EXCEPT ![p] =
                             IF Len(processed) < Len(order)
                             THEN "error"    \* fgbg.apply(None) raises cv2.error
                             ELSE "create_gei"]
    /\ UNCHANGED <<temp_frames, frames_dir, video, uploaded_gei, result,
                   compared, ncalls>>
    /\ UNCHANGED <<samplerVars, matchVars>>

\* uploaded_gei = create_gei(temp_silhouettes_folder); return False if None
CreateGei(p) ==
    /\ pc[p] = "create_gei"
    /\ \/ /\ ~sils_dir                   \* os.listdir raises FileNotFoundError
          /\ pc' = [pc EXCEPT ![p] = "error"]
          /\ UNCHANGED <<uploaded_gei, result>>
       \/ /\ sils_dir
          /\ uploaded_gei' = [uploaded_gei EXCEPT ![p] = create_gei(temp_silhouettes)]
          /\ IF create_gei(temp_silhouettes).isNone
             THEN /\ result' = [result EXCEPT ![p] = FALSE]
                  /\ pc' = [pc EXCEPT ![p] = "done"]
             ELSE /\ pc' = [pc EXCEPT ![p] = "traverse"]
                  /\ UNCHANGED result
    /\ UNCHANGED <<temp_frames, temp_silhouettes, frames_dir, sils_dir, video,
                   applied, compared, ncalls>>
    /\ UNCHANGED <<samplerVars, matchVars>>

\* Step 2 and Step 3 on a gallery folder that exists
Traverse(p) ==
    /\ pc[p] = "traverse"
    /\ \E gallery \in Galleries, match_threshold \in SliderThresholds :
          result' = [result EXCEPT ![p] =
              Decide(TraverseMax(gallery, InitialMaxSimilarity, match_threshold),
                     match_threshold, DefaultRejectThreshold)]
    /\ compared' = [compared EXCEPT ![p] = TRUE]
    /\ pc' = [pc EXCEPT ![p] = "done"]
    /\ UNCHANGED <<temp_frames, temp_silhouettes, frames_dir, sils_dir, video,
                   uploaded_gei, applied, ncalls>>
    /\ UNCHANGED <<samplerVars, matchVars>>

\* os.listdir(enrolled_geis_folder) on a gallery folder that does not exist
TraverseNoGallery(p) ==
    /\ pc[p] = "traverse"
    /\ pc' = [pc EXCEPT ![p] = "error"]
    /\ UNCHANGED <<temp_frames, temp_silhouettes, frames_dir, sils_dir, video,
                   uploaded_gei, result, applied, compared, ncalls>>
    /\ UNCHANGED <<samplerVars, matchVars>>

\* main, after is_person_enrolled returned: empty and remove both folders
Cleanup(p) ==
    /\ pc[p] = "done"
    /\ temp_frames' = EmptyDir
    /\ temp_silhouettes' = EmptyDir
    /\ frames_dir' = FALSE
    /\ sils_dir' = FALSE
    /\ pc' = [pc EXCEPT ![p] = "idle"]
    /\ UNCHANGED <<video, uploaded_gei, result, applied, compared, ncalls>>
    /\ UNCHANGED <<samplerVars, matchVars>>

PipeNext ==
    \E p \in Procs :
        \/ Call(p) \/ ExtractFrames(p) \/ ExtractSilhouettes(p) \/ CreateGei(p)
        \/ Traverse(p) \/ TraverseNoGallery(p) \/ Cleanup(p)

----------------------------------------------------------------------------
(* The specifications.  Each runs one part and holds the others still.     *)

SamplerIdle == sVideo = [opens |-> FALSE, n |-> 0, fps |-> 0] /\ sRate = 1
                 /\ sPc = "returned" /\ sOut = <<>>

MatchIdle ==
    /\ mPc = "done"
    /\ mT = [r \in Runs |-> 0]
    /\ mR = 0
    /\ mMax = [r \in Runs |-> InitialMaxSimilarity]
    /\ fMax = [r \in Runs |-> InitialMaxSimilarity]
    /\ mRes = [r \in Runs |-> FALSE]
    /\ fRes = [r \in Runs |-> FALSE]
    /\ nEntries = 0 /\ nValid = 0 /\ nSkipped = 0
    /\ skipAfterValid = FALSE
    /\ trueMax = NoScore

PipeIdle ==
    /\ temp_frames = EmptyDir /\ temp_silhouettes = EmptyDir
    /\ frames_dir = FALSE /\ sils_dir = FALSE
    /\ pc = [p \in Procs |-> "off"]
    /\ video = [p \in Procs |-> "broken"]
    /\ uploaded_gei = [p \in Procs |-> NoneGei]
    /\ result = [p \in Procs |-> FALSE]
    /\ applied = [p \in Procs |-> <<>>]
    /\ compared = [p \in Procs |-> FALSE]
    /\ ncalls = [p \in Procs |-> 0]

SamplerNext == SamplerCall

SamplerStart == SamplerInit /\ MatchIdle /\ PipeIdle
MatchStart == MatchInit /\ SamplerIdle /\ PipeIdle
PipeStart == PipeInit /\ SamplerIdle /\ MatchIdle

SpecSampler == SamplerStart /\ [][SamplerNext]_vars
SpecMatch == MatchStart /\ [][MatchNext]_vars
SpecPipeline == PipeStart /\ [][PipeNext]_vars

----------------------------------------------------------------------------
(* Properties of the matcher (SpecMatch) *)

Verified(r) == mPc = "done" /\ mRes[r] = TRUE

\* C1: with at least one readable template and reject_threshold <=
\* match_threshold, a maximum SSIM score >= match_threshold over the readable
\* templates makes is_person_enrolled return True.
C1_MaxAtLeastMatchVerifies ==
    \A r \in Runs :
        (mPc = "done" /\ nValid >= 1 /\ mR <= mT[r] /\ trueMax >= mT[r])
            => mRes[r] = TRUE

\* two readable templates, the better one scoring exactly a positive
\* match_threshold: verified
C1_Witness ==
    /\ Verified(1)
    /\ nValid = 2
    /\ mR <= mT[1]
    /\ mT[1] > 0
    /\ trueMax = mT[1]

\* C2: with reject_threshold <= match_threshold, a maximum SSIM score below
\* match_threshold over the readable templates makes is_person_enrolled return
\* False, in the reject band and in the ambiguous band alike.
C2_BelowMatchRejects ==
    \A r \in Runs :
        (mPc = "done" /\ nValid >= 1 /\ mR <= mT[r] /\ trueMax < mT[r])
            => mRes[r] = FALSE

\* C3: a gallery without any valid template gives not verified at every
\* match_threshold, and the max_similarity held at the decision is not a value
\* in the SSIM range [-1, 1].
C3_EmptyGallerySentinel ==
    \A r \in Runs :
        (mPc = "done" /\ nValid = 0)
            => (mRes[r] = FALSE /\ mMax[r] \notin Scores)

\* C8: for the same probe and gallery and thresholds T1 <= T2, verified at T2
\* implies verified at T1.
C8_MonotoneInThreshold ==
    (mPc = "done" /\ mT[1] <= mT[2] /\ mRes[2] = TRUE) => mRes[1] = TRUE

\* verified at a positive T2 and at a strictly smaller T1, templates compared
C8_Witness ==
    /\ Verified(2)
    /\ Verified(1)
    /\ mT[1] < mT[2]
    /\ mT[1] > 0
    /\ nValid >= 1

\* C9: the verdict equals the verdict on the gallery from which the non-folder
\* entries and the templates that fail to load are removed.
C9_SkippedEntriesDoNotMatter ==
    mPc = "done" => \A r \in Runs : mRes[r] = fRes[r]

\* entries skipped before and after a compared template that decides a
\* verified verdict at a positive threshold
C9_Witness ==
    /\ Verified(1)
    /\ mT[1] > 0
    /\ nValid >= 1
    /\ nSkipped >= 2
    /\ skipAfterValid

----------------------------------------------------------------------------
(* Properties of the sampler (SpecSampler) *)

\* floor(sourceFPS / R), the source rate in units of 1/FpsUnit
RateRatio == sVideo.fps \div (FpsUnit * sRate)

\* the spacing k = max(1, floor(sourceFPS / R))
Stride == Max(1, RateRatio)

\* C10: the frames written are the source frames 0, k, 2k, ... below N, with
\* k = max(1, floor(sourceFPS / R)), numbered consecutively from 0: between two
\* consecutive ones exactly floor(sourceFPS / R) - 1 source frames are skipped,
\* none when sourceFPS < 2R.
C10_SampledIndices ==
    (sPc = "returned" /\ sVideo.opens) =>
        /\ Len(sOut) = (sVideo.n + Stride - 1) \div Stride
        /\ \A c \in 1..Len(sOut) : sOut[c] = (c - 1) * Stride
        /\ \A c \in 1..(Len(sOut) - 1) :
               sOut[c + 1] - sOut[c] - 1 = Max(0, RateRatio - 1)
        /\ (sVideo.fps < 2 * sRate * FpsUnit => Len(sOut) = sVideo.n)

\* three frames written with source frames skipped between them, from a
\* fractional source rate
C10_Witness ==
    /\ sPc = "returned"
    /\ sVideo.opens
    /\ Len(sOut) >= 3
    /\ RateRatio >= 2
    /\ sVideo.fps % FpsUnit # 0
    /\ sOut[Len(sOut)] + Stride > sVideo.n

----------------------------------------------------------------------------
(* Properties of the pipeline (SpecPipeline) *)

Others(p) == Procs \ {p}

\* the GEIs a request for video v can build when it runs alone in a fresh
\* working directory
SoloGeis(v) ==
    LET frames == FramesWritten(v) IN
    {create_gei(MasksWritten(frames, order)) :
        order \in {o \in ListDir(frames) : Len(Processed(frames, o, 1)) = Len(o)}}

\* C4: a call for a video that cannot be opened builds no GEI and returns not
\* verified without traversing the gallery, whatever calls came before it in
\* the same working directory.
C4_UnopenableVideoNotVerified ==
    \A p \in Procs :
        (/\ pc[p] = "done"
         /\ ~Video(video[p]).opens
         /\ \A q \in Others(p) : ncalls[q] = 0)
            => (result[p] = FALSE /\ uploaded_gei[p].isNone /\ ~compared[p])

\* C5: two concurrent requests, each the first of its slot in a fresh working
\* directory: every probe GEI built is one the request builds when run alone.
C5_ConcurrentRequestsIsolated ==
    \A p \in Procs :
        (/\ \A q \in Procs : ncalls[q] <= 1
         /\ pc[p] \in {"traverse", "done"})
            => uploaded_gei[p] \in SoloGeis(video[p])

\* C6: no call of is_person_enrolled ends in an uncaught exception.
C6_NeverErrorOutcome ==
    \A p \in Procs :
        (\A q \in Others(p) : ncalls[q] = 0) => pc[p] # "error"

\* C7: the background model is given the sampled frames of the video in
\* capture order.
C7_FramesAppliedInCaptureOrder ==
    \A p \in Procs :
        (ncalls[p] <= 1 /\ \A q \in Others(p) : ncalls[q] = 0)
            => \A a, b \in 1..Len(applied[p]) :
                   a < b => applied[p][a].i < applied[p][b].i

====
